---- MODULE Spec2Model ----
(***************************************************************************)
(* A model of the fingerprint feature core: helper.getOrientations,        *)
(* helper.rotatedRectWithMaxArea, helper.getFrequencies (src/helper.py)    *)
(* and features.get_features / FeatureBase (src/features.py).              *)
(*                                                                         *)
(* One call of one of the three entry points runs per behaviour; `call`    *)
(* names it and `pc` is the position inside it.  Every loop iteration of   *)
(* the source is one action.                                               *)
(*                                                                         *)
(* Numbers.                                                                *)
(*  - An angle is an integer code c, PiCode standing for pi: an even c is  *)
(*    the angle c*pi/16 exactly, an odd c is some angle strictly between   *)
(*    (c-1)*pi/16 and (c+1)*pi/16.  Order, sign and equality with a grid   *)
(*    angle are therefore decided exactly.                                 *)
(*  - A frequency is a rational <<n, d>> in lowest terms with d > 0; the   *)
(*    literal -1 is <<-1, 1>>.                                             *)
(***************************************************************************)
EXTENDS Integers, Sequences, FiniteSets

\* ---------------------------------------------------------------- bounds
\* Largest number of full blocks of an image (xblocks * yblocks).
MaxBlocks == 6
\* Largest block size w tried (the source's default is 16).
MaxW == 2
\* Largest number of minutiae / ridge-count records handed to get_features.
MaxN == 2

\* ------------------------------------------------------------- constants
\* pi, in angle codes.
PiCode == 16
\* The literal -1.0 of np.full(image.shape, -1.0) in getOrientations.  As a
\* number of radians it equals no grid angle; it is held apart from the codes.
Undefined == -1000
\* f < 5 and f > 15 in getFrequencies.
MinPeriod == 5
MaxPeriod == 15
\* np.pad(orien, 1) and np.pad(F, 3).
OrienPad == 1
FreqPad == 3

\* --------------------------------------------------------------- helpers
Abs(n) == IF n < 0 THEN -n ELSE n

Min2(a, b) == IF a <= b THEN a ELSE b

Max2(a, b) == IF a >= b THEN a ELSE b

RECURSIVE GCD(_, _)
GCD(a, b) == IF b = 0 THEN a ELSE GCD(b, a % b)

RECURSIVE ISqrtFrom(_, _)
ISqrtFrom(n, r) == IF (r + 1) * (r + 1) > n THEN r ELSE ISqrtFrom(n, r + 1)

\* floor(sqrt(n)), n >= 0.
ISqrt(n) == ISqrtFrom(n, 0)

\* Rationals <<n, d>>.
Rat(n, d) ==
  LET g == GCD(Abs(n), Abs(d))
      s == IF d < 0 THEN -1 ELSE 1
  IN  <<(s * n) \div g, (s * d) \div g>>

RatLE(p, q) == p[1] * q[2] <= q[1] * p[2]

RatLT(p, q) == p[1] * q[2] < q[1] * p[2]

MinusOne == <<-1, 1>>

Zero == <<0, 1>>

\* The octant of the vector (x, y): 2k when atan2(y, x) = k*pi/4 exactly,
\* 2k+1 when it lies strictly between k*pi/4 and (k+1)*pi/4; in -7..8.
\* atan2(0, 0) = 0 and atan2(0, x < 0) = pi, as numpy gives for +0.0.
Octant(y, x) ==
  CASE y = 0 /\ x >= 0 -> 0
    [] y = 0 /\ x < 0 -> 8
    [] y > 0 /\ x > 0 -> IF y < x THEN 1 ELSE IF y = x THEN 2 ELSE 3
    [] y > 0 /\ x = 0 -> 4
    [] y > 0 /\ x < 0 -> IF y > -x THEN 5 ELSE IF y = -x THEN 6 ELSE 7
    [] y < 0 /\ x > 0 -> IF -y < x THEN -1 ELSE IF -y = x THEN -2 ELSE -3
    [] y < 0 /\ x = 0 -> -4
    [] y < 0 /\ x < 0 -> IF -y > -x THEN -5 ELSE IF -y = -x THEN -6 ELSE -7

\* np.arctan2(y, x) / 2 as an angle code: half of k*pi/4 is the grid angle
\* 2k*pi/16, and half of an open octant is the open interval between two
\* grid angles.
ArcTan2Half(y, x) == Octant(y, x)

\* Whether the vector (x, y), strictly inside an octant, lies past the
\* octant's middle (an odd multiple of pi/8).  With a >= b > 0 the larger
\* and smaller of |x|, |y|, the angle from the nearer axis is below pi/8
\* iff b/a < sqrt(2) - 1 iff (a + b)^2 < 2 a^2; equality needs sqrt(2)
\* rational and never happens.
NearAxis(y, x) ==
  LET a == Max2(Abs(x), Abs(y))
      b == Min2(Abs(x), Abs(y))
  IN  (a + b) * (a + b) < 2 * a * a

\* np.arctan2(y, x) as an angle code, in -15..16.
ArcTan2(y, x) ==
  LET o == Octant(y, x)
      k == (o - 1) \div 2
      \* octant 2k+1 leaves an axis when k is even and reaches one when odd
      low == IF k % 2 = 0 THEN NearAxis(y, x) ELSE ~NearAxis(y, x)
  IN  IF o % 2 = 0 THEN 2 * o
      ELSE IF low THEN 4 * k + 1 ELSE 4 * k + 3

\* cos and sin of twice a grid angle that is a multiple of pi/4.
Cos2(c) == CASE c % 16 = 0 -> 1 [] c % 16 = 4 -> 0 [] c % 16 = 8 -> -1 [] c % 16 = 12 -> 0

Sin2(c) == CASE c % 16 = 0 -> 0 [] c % 16 = 4 -> 1 [] c % 16 = 8 -> 0 [] c % 16 = 12 -> -1

\* ----------------------------------------------------------------- state
VARIABLES call, pc, w, xblocks, yblocks, done,
          image, gx, gy, orien, orientation, orientations,
          window, peaks, F, frequencies,
          fincoords, vector, features, i

vars == <<call, pc, w, xblocks, yblocks, done,
          image, gx, gy, orien, orientation, orientations,
          window, peaks, F, frequencies,
          fincoords, vector, features, i>>

\* height, width = image.shape: the full blocks and a partial trailing block
\* of w - 1 pixels in each direction.
Height == xblocks * w + (w - 1)

Width == yblocks * w + (w - 1)

Pixels == (0 .. Height - 1) \X (0 .. Width - 1)

Blocks == (0 .. xblocks - 1) \X (0 .. yblocks - 1)

\* The position of block b in the row-major double loop.
Index(b) == b[1] * yblocks + b[2]

\* The block the sequential double loop handles next.
RowMajorNext(b) == Index(b) = Cardinality(done)

\* The pixel footprint y*w:(y+1)*w, x*w:(x+1)*w of block b.
Footprint(b) == (b[1] * w .. (b[1] + 1) * w - 1) \X (b[2] * w .. (b[2] + 1) * w - 1)

\* The block whose footprint holds pixel p, for a pixel inside full coverage.
BlockOf(p) == <<p[1] \div w, p[2] \div w>>

Covered(p) == p[1] < xblocks * w /\ p[2] < yblocks * w

Clamp(k, n) == IF k < 0 THEN 0 ELSE IF k > n - 1 THEN n - 1 ELSE k

\* np.pad(grid, n, mode="edge") of an xblocks x yblocks grid.
PadEdge(grid, n) ==
  [q \in (0 .. xblocks + 2 * n - 1) \X (0 .. yblocks + 2 * n - 1) |->
     grid[<<Clamp(q[1] - n, xblocks), Clamp(q[2] - n, yblocks)>>]]

\* The image shapes tried: every xblocks x yblocks with at most MaxBlocks
\* blocks, every block size up to MaxW.
Shapes ==
  {s \in (1 .. MaxBlocks) \X (1 .. MaxBlocks) \X (1 .. MaxW) : s[1] * s[2] <= MaxBlocks}

\* The block patterns tried: block (r, c) gets kind (a + u*r + v*c) mod n,
\* for every first kind a and steps u, v of 0 or 1.
Patterns(n) == (0 .. n - 1) \X (0 .. 1) \X (0 .. 1)

KindAt(p, n, b) == (p[1] + p[2] * b[1] + p[3] * b[2]) % n

None == << >>

\* ------------------------------------------------------- getOrientations
\* The gradient pairs (gx, gy) a block is filled with.  cv2.GaussianBlur and
\* cv2.Sobel are outside the repository: their outputs gx, gy are the inputs
\* here.  A block of one gradient keeps the block sums on an axis of the
\* doubled-angle plane, where the angle arithmetic below is exact.
GradKinds == << <<0, 0>>, <<1, 0>>, <<0, 1>>, <<1, 1>>, <<1, -1>> >>

RECURSIVE SumValues(_, _, _)
\* The sum, over the values v in D, of v times the number of p in S with
\* f[p] = v.
SumValues(D, S, f) ==
  IF D = {} THEN 0
  ELSE LET v == CHOOSE u \in D : TRUE
       IN  v * Cardinality({p \in S : f[p] = v}) + SumValues(D \ {v}, S, f)

\* The sum of f[p] over the finite set S, each value taken as often as it
\* occurs.
SumOver(S, f) == SumValues({f[p] : p \in S}, S, f)

\* numerator += 2 * gx * gy over the block.
Numerator(b) == SumOver(Footprint(b), [p \in Footprint(b) |-> 2 * gx[p] * gy[p]])

\* denominator += gx ** 2 - gy ** 2 over the block.
Denominator(b) ==
  SumOver(Footprint(b), [p \in Footprint(b) |-> gx[p] * gx[p] - gy[p] * gy[p]])

\* grid[b] = v on a grid made by np.empty: a cell exists once it is written.
Store(grid, b, v) == [q \in DOMAIN grid \cup {b} |-> IF q = b THEN v ELSE grid[q]]

\* Tile with the slices one pixel too long: y*w:(y+1)*w+1, x*w:(x+1)*w+1.
TileOverlap(field, b, v) ==
  [p \in DOMAIN field |->
     IF /\ p[1] \in b[1] * w .. (b[1] + 1) * w
        /\ p[2] \in b[2] * w .. (b[2] + 1) * w
     THEN v ELSE field[p]]

\* field[y*w:(y+1)*w, x*w:(x+1)*w] = v.
Tile(field, b, v) == [p \in DOMAIN field |-> IF p \in Footprint(b) THEN v ELSE field[p]]

\* orien = (orien + np.pi/2) % np.pi.
Rotate90(c) == (c + PiCode \div 2) % PiCode

\* surrounding = orien[x:x+3, y:y+3] of the padded grid, as its index set.
Surrounding(b, n) == (b[1] .. b[1] + 2 * n) \X (b[2] .. b[2] + 2 * n)

\* np.arctan2(np.mean(sin(2 s)), np.mean(cos(2 s))) / 2.  Both means divide by
\* the same 9, which leaves the direction of the vector unchanged, so the
\* sums are taken.
SmoothedAngle(padded, b) ==
  LET S == Surrounding(b, OrienPad)
      cos_angles == SumOver(S, [q \in S |-> Cos2(padded[q])])
      sin_angles == SumOver(S, [q \in S |-> Sin2(padded[q])])
  IN  ArcTan2Half(sin_angles, cos_angles)

InitOrientations ==
  /\ call = "getOrientations"
  /\ pc = "estimate"
  /\ \E s \in Shapes : xblocks = s[1] /\ yblocks = s[2] /\ w = s[3]
  /\ \E pat \in Patterns(Len(GradKinds)) :
       /\ gx = [p \in Pixels |->
                  IF Covered(p) THEN GradKinds[KindAt(pat, Len(GradKinds), BlockOf(p)) + 1][1]
                  ELSE 0]
       /\ gy = [p \in Pixels |->
                  IF Covered(p) THEN GradKinds[KindAt(pat, Len(GradKinds), BlockOf(p)) + 1][2]
                  ELSE 0]
  /\ done = {}
  /\ orien = None
  /\ orientation = None
  /\ orientations = None
  /\ image = None /\ window = None /\ peaks = None /\ F = None /\ frequencies = None
  /\ fincoords = None /\ vector = None /\ features = None /\ i = 0

\* Lines 130-138: one iteration of the block loop.
EstimateBlock(b) ==
  /\ call = "getOrientations" /\ pc = "estimate"
  /\ b \notin done
  /\ orien' = Store(orien, b, ArcTan2Half(Numerator(b), Denominator(b)))
  /\ done' = done \cup {b}
  /\ UNCHANGED <<call, pc, w, xblocks, yblocks, image, gx, gy, orientation, orientations,
                 window, peaks, F, frequencies, fincoords, vector, features, i>>

\* Lines 141-148: rotate by 90 degrees, allocate the outputs, pad.
RotateAndPad ==
  /\ call = "getOrientations" /\ pc = "estimate"
  /\ done = Blocks
  /\ orien' = PadEdge([b \in Blocks |-> Rotate90(orien[b])], OrienPad)
  /\ orientations' = [p \in Pixels |-> Undefined]
  /\ orientation' = None
  /\ done' = {}
  /\ pc' = "smooth"
  /\ UNCHANGED <<call, w, xblocks, yblocks, image, gx, gy,
                 window, peaks, F, frequencies, fincoords, vector, features, i>>

\* Lines 150-157: one iteration of the smoothing loop.
SmoothBlock(b) ==
  /\ call = "getOrientations" /\ pc = "smooth"
  /\ b \notin done
  /\ orientation' = Store(orientation, b, SmoothedAngle(orien, b))
  /\ IF done \cup {b} = Blocks
     THEN done' = {} /\ pc' = "tile"
     ELSE done' = done \cup {b} /\ pc' = pc
  /\ UNCHANGED <<call, w, xblocks, yblocks, image, gx, gy, orien, orientations,
                 window, peaks, F, frequencies, fincoords, vector, features, i>>

\* Lines 159-163: one iteration of the tiling loop; the return after the last.
TileBlock(b) ==
  /\ call = "getOrientations" /\ pc = "tile"
  /\ b \notin done
  /\ orientations' = Tile(orientations, b, orientation[b])
  /\ done' = done \cup {b}
  /\ pc' = IF done \cup {b} = Blocks THEN "done" ELSE pc
  /\ UNCHANGED <<call, w, xblocks, yblocks, image, gx, gy, orien, orientation,
                 window, peaks, F, frequencies, fincoords, vector, features, i>>

Estimate == \E b \in Blocks : RowMajorNext(b) /\ EstimateBlock(b)

Smooth == \E b \in Blocks : RowMajorNext(b) /\ SmoothBlock(b)

TileOrientations == \E b \in Blocks : RowMajorNext(b) /\ TileBlock(b)

\* ------------------------------------------------ rotatedRectWithMaxArea
\* The shape <<hr, wr>> of image[y:y+hr, x:x+wr] for an h x wd block and an
\* angle that is a multiple of pi/4.  ndimage rotate (outside the
\* repository) fills the pixels; only the shape decides what follows.
\*  - a multiple of pi/2: (sin_a, cos_a) is (0, 1) or (1, 0); side_short <= 0
\*    is false, so the fully constrained case gives
\*    wr, hr = (wd cos_a - h sin_a)/cos_2a, (h cos_a - wd sin_a)/cos_2a;
\*  - an odd multiple of pi/4: sin_a = cos_a = sqrt(1/2); side_short <=
\*    side_long holds, so wr = hr = int(side_short / sqrt(2))
\*    = floor(sqrt(side_short^2 / 2)).
\* A slice never reaches past the block: each side is cut to the block's.
rotatedRectWithMaxArea(h, wd, angle) ==
  LET side_short == Min2(h, wd)
      sin_a == IF angle % PiCode = 0 THEN 0 ELSE 1
      cos_a == IF angle % PiCode = 0 THEN 1 ELSE 0
      cos_2a == cos_a * cos_a - sin_a * sin_a
      half == ISqrt((side_short * side_short) \div 2)
      wr == IF angle % (PiCode \div 2) = 0 THEN (wd * cos_a - h * sin_a) \div cos_2a ELSE half
      hr == IF angle % (PiCode \div 2) = 0 THEN (h * cos_a - wd * sin_a) \div cos_2a ELSE half
  IN  <<Min2(hr, h), Min2(wr, wd)>>

\* window.size
Size(win) == win[1] * win[2]

\* --------------------------------------------------------- getFrequencies
\* The peak lists signal.find_peaks_cwt (outside the repository) returns, one
\* per block texture: ascending sample indices.  Textures 0..3 give no valid
\* period (no peak, one peak, spacing 4, spacing 16), textures 4..7 give the
\* periods 5, 15, 15/2 and 5.
PeakTable ==
  << << >>, <<3>>, <<0, 4>>, <<0, 16>>,
     <<0, 5>>, <<0, 15>>, <<0, 5, 15>>, <<2, 7, 12, 17>> >>

\* The orientations a block of the input field is filled with: what
\* getOrientations writes on the pi/4 grid, and 3 pi/4.
OrientKinds == <<0, 4, 8, 12, -4>>

\* The result of a division by zero.
DivByZero == <<0, 0>>

\* a / b
Divide(a, b) == IF b = 0 THEN DivByZero ELSE Rat(a, b)

\* peaks = signal.find_peaks_cwt(normalize(np.sum(window, (0,))), [3]) for
\* the block at b: the list of the block's texture.
FindPeaks(b) == PeakTable[image[<<b[1] * w, b[2] * w>>] + 1]

\* LocalFrequency with `len(peaks) < 1` for `len(peaks) < 2`.
LocalFrequencyOnePeak(pk) ==
  IF Len(pk) < 1 THEN MinusOne
  ELSE LET f == Divide(pk[Len(pk)] - pk[1], Len(pk) - 1)
       IN  IF f = DivByZero THEN DivByZero
           ELSE IF RatLT(f, <<MinPeriod, 1>>) \/ RatLT(<<MaxPeriod, 1>>, f) THEN MinusOne
           ELSE Divide(f[2], f[1])

\* LocalFrequency with `f < 4` for `f < 5`.
LocalFrequencyWide(pk) ==
  IF Len(pk) < 2 THEN MinusOne
  ELSE LET f == Divide(pk[Len(pk)] - pk[1], Len(pk) - 1)
       IN  IF f = DivByZero THEN DivByZero
           ELSE IF RatLT(f, <<MinPeriod - 1, 1>>) \/ RatLT(<<MaxPeriod, 1>>, f) THEN MinusOne
           ELSE Divide(f[2], f[1])

\* Lines 227-234: the local estimate from the peak list.
LocalFrequency(pk) ==
  IF Len(pk) < 2 THEN MinusOne
  ELSE LET f == Divide(pk[Len(pk)] - pk[1], Len(pk) - 1)
       IN  IF f = DivByZero THEN DivByZero
           ELSE IF RatLT(f, <<MinPeriod, 1>>) \/ RatLT(<<MaxPeriod, 1>>, f) THEN MinusOne
           ELSE Divide(f[2], f[1])

\* Valid without the filter.
ValidAll(padded, S) == S

\* surrounding[np.where(surrounding >= 0.0)], as the indices kept.

Valid(padded, S) == {q \in S : RatLE(Zero, padded[q])}

RECURSIVE Product(_)
Product(D) ==
  IF D = {} THEN 1
  ELSE LET d == CHOOSE q \in D : TRUE IN d * Product(D \ {d})

\* The sum of the rationals f[p] over the finite set S of grid indices, taken
\* over a common denominator.
RatSum(S, f) ==
  LET den == Product({f[q][2] : q \in S})
  IN  Rat(SumOver(S, [q \in S |-> f[q][1] * (den \div f[q][2])]), den)

\* Lines 240-245: the value tiled for block b.
SmoothedFrequency(padded, b) ==
  LET surrounding == Valid(padded, Surrounding(b, FreqPad))
  IN  IF Cardinality(surrounding) = 0 THEN MinusOne
      ELSE LET total == RatSum(surrounding, padded)
           IN  Rat(total[1], total[2] * Cardinality(surrounding))

InitFrequencies ==
  /\ call = "getFrequencies"
  /\ pc = "estimate"
  /\ \E s \in Shapes : xblocks = s[1] /\ yblocks = s[2] /\ w = s[3]
  /\ \E pat \in Patterns(Len(PeakTable)) :
       image = [p \in Pixels |->
                  IF Covered(p) THEN KindAt(pat, Len(PeakTable), BlockOf(p)) ELSE 0]
  /\ \E a \in 0 .. 1 :
       orientations = [p \in Pixels |->
                  IF Covered(p)
                  THEN OrientKinds[KindAt(<<a, 1, 1>>, Len(OrientKinds), BlockOf(p)) + 1]
                  ELSE Undefined]
  /\ done = {}
  /\ F = None
  /\ window = None /\ peaks = None /\ frequencies = None
  /\ gx = None /\ gy = None /\ orien = None /\ orientation = None
  /\ fincoords = None /\ vector = None /\ features = None /\ i = 0

\* LocalEstimateFrame with the block shifted to a minimum of 0 in place, as
\* `image -= np.min(image)` does on a view.
LocalEstimateFrameInPlace(b) ==
  /\ image' = [p \in DOMAIN image |->
                 IF p \in Footprint(b) THEN image[p] - image[<<b[1] * w, b[2] * w>>]
                 ELSE image[p]]
  /\ UNCHANGED <<call, w, xblocks, yblocks, gx, gy, orien, orientation, orientations,
                 frequencies, fincoords, vector, features, i>>

\* What lines 211-234 leave alone: block is a view that is only read,
\* rotatedRectWithMaxArea rebinds its own name to the rotated copy (line
\* 187), np.sum and normalize (np.copy, line 49) return new arrays.
LocalEstimateFrame(b) ==
  UNCHANGED <<call, w, xblocks, yblocks, image, gx, gy, orien, orientation, orientations,
              frequencies, fincoords, vector, features, i>>

\* Lines 211-234: one iteration of the block loop.
LocalEstimate(b) ==
  /\ call = "getFrequencies" /\ pc = "estimate"
  /\ b \notin done
  /\ LET theta == orientations[<<b[1] * w + w \div 2, b[2] * w + w \div 2>>]
         win == rotatedRectWithMaxArea(w, w, PiCode \div 2 + theta)
         pk == FindPeaks(b)
     IN  /\ window' = win
         /\ IF Size(win) = 0
            THEN /\ F' = Store(F, b, MinusOne)
                 /\ done' = done \cup {b}
                 /\ UNCHANGED <<peaks, pc>>
            ELSE /\ peaks' = pk
                 /\ IF LocalFrequency(pk) = DivByZero
                    THEN pc' = "ZeroDivisionError" /\ UNCHANGED <<F, done>>
                    ELSE /\ F' = Store(F, b, LocalFrequency(pk))
                         /\ done' = done \cup {b}
                         /\ pc' = pc
  /\ LocalEstimateFrame(b)

\* Lines 236-237: allocate the output, pad the local estimates.
PadF ==
  /\ call = "getFrequencies" /\ pc = "estimate"
  /\ done = Blocks
  /\ frequencies' = [p \in Pixels |-> MinusOne]
  /\ F' = PadEdge(F, FreqPad)
  /\ done' = {}
  /\ pc' = "smooth"
  /\ UNCHANGED <<call, w, xblocks, yblocks, image, gx, gy, orien, orientation, orientations,
                 window, peaks, fincoords, vector, features, i>>

\* Lines 238-247: one iteration of the smoothing loop; the return after the last.
SmoothFrequency(b) ==
  /\ call = "getFrequencies" /\ pc = "smooth"
  /\ b \notin done
  /\ frequencies' = Tile(frequencies, b, SmoothedFrequency(F, b))
  /\ done' = done \cup {b}
  /\ pc' = IF done \cup {b} = Blocks THEN "done" ELSE pc
  /\ UNCHANGED <<call, w, xblocks, yblocks, image, gx, gy, orien, orientation, orientations,
                 window, peaks, F, fincoords, vector, features, i>>

EstimateFrequency == \E b \in Blocks : RowMajorNext(b) /\ LocalEstimate(b)

SmoothFrequencies == \E b \in Blocks : RowMajorNext(b) /\ SmoothFrequency(b)

\* ------------------------------------------------------------ features
\* helper.dki(p, q): the distance between two points, held as its square.
dki(p, q) == (p[1] - q[1]) * (p[1] - q[1]) + (p[2] - q[2]) * (p[2] - q[2])

\* helper.dfi(a, b): the difference a - b of two angles, wrapped into
\* (-pi/2, pi/2].
dfi(a, b) == ((a - b + PiCode \div 2 - 1) % PiCode) - (PiCode \div 2 - 1)

\* int(t == 1)
IsOne(t) == IF t = 1 THEN 1 ELSE 0

\* FeatureBase.__init__(point, type, orientations), lines 31-35.
FeatureBase(point, type, field) ==
  [point |-> point, theta |-> field[<<point[1], point[2]>>], type |-> IsOne(type)]

\* make_feature_vector with nki and nkj exchanged.
make_feature_vector_swapped(self, field, ridgecount) ==
  LET ki == ridgecount[1]
      kj == ridgecount[4]
      itheta == field[<<ki[1], ki[2]>>]
      jtheta == field[<<kj[1], kj[2]>>]
      diff_ki == <<self.point[1] - ki[1], self.point[2] - ki[2]>>
      diff_kj == <<self.point[1] - kj[1], self.point[2] - kj[2]>>
  IN  << dki(self.point, ki),
         dki(self.point, kj),
         dfi(ArcTan2(diff_ki[2], diff_ki[1]), self.theta),
         dfi(ArcTan2(diff_kj[2], diff_kj[1]), self.theta),
         dfi(self.theta, itheta),
         dfi(self.theta, jtheta),
         ridgecount[6],
         ridgecount[3],
         self.type,
         IsOne(ridgecount[2]),
         IsOne(ridgecount[5]) >>

\* FeatureBase.make_feature_vector(ridgecount), lines 37-73.  ridgecount[0]
\* of the source is ridgecount[1] here, and so on; self.orientations is field.
make_feature_vector(self, field, ridgecount) ==
  LET ki == ridgecount[1]
      kj == ridgecount[4]
      itheta == field[<<ki[1], ki[2]>>]
      jtheta == field[<<kj[1], kj[2]>>]
      diff_ki == <<self.point[1] - ki[1], self.point[2] - ki[2]>>
      diff_kj == <<self.point[1] - kj[1], self.point[2] - kj[2]>>
  IN  << dki(self.point, ki),
         dki(self.point, kj),
         dfi(ArcTan2(diff_ki[2], diff_ki[1]), self.theta),
         dfi(ArcTan2(diff_kj[2], diff_kj[1]), self.theta),
         dfi(self.theta, itheta),
         dfi(self.theta, jtheta),
         ridgecount[3],
         ridgecount[6],
         self.type,
         IsOne(ridgecount[2]),
         IsOne(ridgecount[5]) >>

\* The minutiae (x, y, type) and ridge-count records
\* (ki, typei, counti, kj, typej, countj) the inputs are drawn from.
MinutiaPoints == { <<0, 0, 1>>, <<2, 1, 0>>, <<1, 2, 3>> }

RidgeCounts ==
  { << <<1, 2>>, 1, 2, <<0, 1>>, 0, 5 >>,
    << <<0, 0>>, 3, 0, <<2, 2>>, 1, 7 >>,
    << <<2, 0>>, 0, 4, <<1, 1>>, 1, 4 >> }

SeqsUpTo(S, n) == UNION {[1 .. k -> S] : k \in 0 .. n}

InitFeatures ==
  /\ call = "get_features"
  /\ pc = "loop"
  /\ xblocks = 3 /\ yblocks = 3 /\ w = 1
  /\ \E a \in 0 .. Len(OrientKinds) - 1 :
       orientations = [p \in Pixels |->
                         OrientKinds[KindAt(<<a, 1, 2>>, Len(OrientKinds), p) + 1]]
  /\ fincoords \in SeqsUpTo(MinutiaPoints, MaxN)
  /\ vector \in SeqsUpTo(RidgeCounts, MaxN)
  /\ features = << >>
  /\ i = 0
  /\ done = {}
  /\ image = None /\ window = None /\ peaks = None /\ F = None /\ frequencies = None
  /\ gx = None /\ gy = None /\ orien = None /\ orientation = None

\* RecordFor with vector[0] for vector[i].
RecordForFirst(k) == vector[1]

\* The ridge-count record the k-th iteration (counted from 1) passes on.

RecordFor(k) == vector[k]

\* Lines 14-18: one iteration of the loop of get_features.  vector[i] past
\* the end of vector raises IndexError.
FeatureStep ==
  /\ call = "get_features" /\ pc = "loop"
  /\ i < Len(fincoords)
  /\ LET point == fincoords[i + 1]
         feature == FeatureBase(<<point[1], point[2]>>, point[3], orientations)
     IN  IF i + 1 > Len(vector)
         THEN pc' = "IndexError" /\ UNCHANGED <<features, i>>
         ELSE /\ features' = Append(features, make_feature_vector(feature, orientations, RecordFor(i + 1)))
              /\ i' = i + 1
              /\ pc' = pc
  /\ UNCHANGED <<call, w, xblocks, yblocks, done, image, gx, gy, orien, orientation,
                 orientations, window, peaks, F, frequencies, fincoords, vector>>

\* Line 20: return features.
ReturnFeatures ==
  /\ call = "get_features" /\ pc = "loop"
  /\ i = Len(fincoords)
  /\ pc' = "done"
  /\ UNCHANGED <<call, w, xblocks, yblocks, done, image, gx, gy, orien, orientation,
                 orientations, window, peaks, F, frequencies, fincoords, vector, features, i>>

\* ---------------------------------------------------------- specification
Init == InitOrientations \/ InitFrequencies \/ InitFeatures

Next ==
  \/ Estimate \/ RotateAndPad \/ Smooth \/ TileOrientations
  \/ EstimateFrequency \/ PadF \/ SmoothFrequencies
  \/ FeatureStep \/ ReturnFeatures

Spec == Init /\ [][Next]_vars

\* The same program with the iterations of the smoothing and tiling loops
\* taken in any order.
NextAnyOrder ==
  \/ Estimate \/ RotateAndPad
  \/ (\E b \in Blocks : SmoothBlock(b))
  \/ (\E b \in Blocks : TileBlock(b))
  \/ EstimateFrequency \/ PadF
  \/ (\E b \in Blocks : SmoothFrequency(b))

SpecAnyOrder == (InitOrientations \/ InitFrequencies) /\ [][NextAnyOrder]_vars

\* ------------------------------------------------------------ properties
\* The feature vector of the k-th minutia and the k-th ridge-count record.
VectorOf(k) ==
  make_feature_vector(
    FeatureBase(<<fincoords[k][1], fincoords[k][2]>>, fincoords[k][3], orientations),
    orientations, vector[k])

\* C1: when fincoords and vector have the same length N, get_features returns
\* exactly N vectors, and the k-th is the vector of fincoords[k], vector[k] and
\* the orientation field alone; no iteration fails on the way.
C1_BatchCorrespondence ==
  (call = "get_features" /\ Len(fincoords) = Len(vector)) =>
    /\ pc # "IndexError"
    /\ Len(features) = i
    /\ pc = "done" => Len(features) = Len(fincoords)
    /\ \A k \in 1 .. Len(features) : features[k] = VectorOf(k)

\* A call over two different minutiae and two different records has returned.
C1_Witness ==
  /\ call = "get_features" /\ pc = "done"
  /\ Len(fincoords) = 2 /\ Len(vector) = 2 /\ Len(features) = 2
  /\ fincoords[1] # fincoords[2] /\ vector[1] # vector[2]
  /\ features[1] # features[2]

\* C2: a call whose two sequences differ in length is rejected before any
\* feature vector is computed: it never holds a computed vector and never
\* returns.
C2_MismatchRejectedFirst ==
  (call = "get_features" /\ Len(fincoords) # Len(vector)) =>
    (features = << >> /\ pc # "done")

\* C3: every pixel of the field getOrientations returns is an angle in
\* [0, pi), or the sentinel -1 at a pixel outside full-block coverage.
C3_OrientationRange ==
  (call = "getOrientations" /\ pc = "done") =>
    \A p \in Pixels :
      \/ (0 <= orientations[p] /\ orientations[p] < PiCode)
      \/ (orientations[p] = Undefined /\ ~Covered(p))

\* The centre of block b's 3x3 neighbourhood in the padded grid.
Centre(b) == <<b[1] + OrienPad, b[2] + OrienPad>>

\* C4: a block whose nine padded neighbours all hold the same angle is
\* smoothed to that very angle.
C4_UniformNeighbourhoodExact ==
  (call = "getOrientations" /\ pc \in {"smooth", "tile", "done"}) =>
    \A b \in DOMAIN orientation :
      (\A q \in Surrounding(b, OrienPad) : orien[q] = orien[Centre(b)]) =>
        orientation[b] = orien[Centre(b)]

InBand(f) == RatLE(<<1, MaxPeriod>>, f) /\ RatLE(f, <<1, MinPeriod>>)

\* C5: every pixel of the field getFrequencies builds is the sentinel -1 or
\* lies in [1/15, 1/5].
C5_FrequencyBand ==
  (call = "getFrequencies" /\ pc \in {"smooth", "done"}) =>
    \A p \in Pixels : frequencies[p] = MinusOne \/ InBand(frequencies[p])

\* The value tiled for block b, read at the block's first pixel.
TiledAt(b) == frequencies[<<b[1] * w, b[2] * w>>]

\* The entries of block b's 7x7 neighbourhood that are not the sentinel.
Kept(b) == {q \in Surrounding(b, FreqPad) : F[q] # MinusOne}

\* A returned field holds a mean of valid entries taken next to sentinel
\* entries, and that mean is none of the entries.
C5_Witness ==
  /\ call = "getFrequencies" /\ pc = "done"
  /\ \E b \in Blocks :
       /\ TiledAt(b) # MinusOne
       /\ Kept(b) # Surrounding(b, FreqPad)
       /\ \A q \in Kept(b) : F[q] # TiledAt(b)

\* C6: a smoothed block is -1 exactly when all 49 entries of its
\* neighbourhood are -1, and otherwise the mean of the entries other than -1:
\* their sum over their number.
C6_SentinelMean ==
  (call = "getFrequencies" /\ pc \in {"smooth", "done"}) =>
    \A b \in done :
      /\ (TiledAt(b) = MinusOne) <=> (Kept(b) = {})
      /\ Kept(b) # {} =>
           LET total == RatSum(Kept(b), F)
           IN  TiledAt(b) = Rat(total[1], total[2] * Cardinality(Kept(b)))

\* A returned field with a block whose whole neighbourhood is -1 and a block
\* whose neighbourhood mixes sentinel and valid entries.
C6_Witness ==
  /\ call = "getFrequencies" /\ pc = "done"
  /\ \E b \in Blocks : Kept(b) = {}
  /\ \E b \in Blocks : Kept(b) # {} /\ Kept(b) # Surrounding(b, FreqPad)

\* The block the sequential loop handled last.
LastBlock == CHOOSE b \in done : Index(b) = Cardinality(done) - 1

\* C7: the local estimate is -1 for an empty window, -1 for fewer than two
\* peaks, and otherwise decided by spacing = (last - first)/(n - 1): -1 below 5
\* or above 15, 1/spacing from 5 to 15 inclusive; no division by zero occurs.
C7_LocalEstimate ==
  /\ pc # "ZeroDivisionError"
  /\ (call = "getFrequencies" /\ pc = "estimate" /\ done # {}) =>
       LET n == Len(peaks)
           spacing == Rat(peaks[n] - peaks[1], n - 1)
       IN  IF Size(window) = 0 THEN F[LastBlock] = MinusOne
           ELSE IF n < 2 THEN F[LastBlock] = MinusOne
           ELSE IF spacing[1] < MinPeriod * spacing[2] \/ spacing[1] > MaxPeriod * spacing[2]
                THEN F[LastBlock] = MinusOne
                ELSE F[LastBlock] = Rat(spacing[2], spacing[1])

\* A block with peaks exactly 15 apart has just got the estimate 1/15, after
\* a block with an empty window.
C7_Witness ==
  /\ call = "getFrequencies" /\ pc = "estimate" /\ done # {}
  /\ Size(window) # 0 /\ Len(peaks) = 2 /\ peaks[2] - peaks[1] = MaxPeriod
  /\ F[LastBlock] = <<1, MaxPeriod>>
  /\ \E b \in done : F[b] = MinusOne /\ FindPeaks(b) = <<0, 5>>

\* C8: a feature vector has 11 fields in the order dki, dkj, fiki, fikj,
\* phiki, phikj, nki, nkj, type, typei, typej; nki and nkj are the counts of
\* the record's first and second neighbour, and the three types are 1 for a
\* type code of 1 and 0 otherwise.
C8_FeatureVectorShape ==
  call = "get_features" =>
    \A k \in 1 .. Len(features) :
      LET v == features[k]
          P == <<fincoords[k][1], fincoords[k][2]>>
          theta == orientations[P]
          ki == vector[k][1]
          kj == vector[k][4]
      IN  /\ Len(v) = 11
          /\ v[1] = dki(P, ki)
          /\ v[2] = dki(P, kj)
          /\ v[3] = dfi(ArcTan2(P[2] - ki[2], P[1] - ki[1]), theta)
          /\ v[4] = dfi(ArcTan2(P[2] - kj[2], P[1] - kj[1]), theta)
          /\ v[5] = dfi(theta, orientations[ki])
          /\ v[6] = dfi(theta, orientations[kj])
          /\ v[7] = vector[k][3]
          /\ v[8] = vector[k][6]
          /\ v[9] = (IF fincoords[k][3] = 1 THEN 1 ELSE 0)
          /\ v[10] = (IF vector[k][2] = 1 THEN 1 ELSE 0)
          /\ v[11] = (IF vector[k][5] = 1 THEN 1 ELSE 0)

\* A vector whose two counts differ, built for a minutia of a type code that
\* is neither 0 nor 1 and neighbours of types 1 and 0.
C8_Witness ==
  /\ call = "get_features" /\ Len(features) >= 1
  /\ \E k \in 1 .. Len(features) :
       /\ features[k][7] # features[k][8]
       /\ fincoords[k][3] = 3 /\ features[k][9] = 0
       /\ features[k][10] = 1 /\ features[k][11] = 0
       /\ features[k][3] # features[k][4]

\* C9: no step of getFrequencies or get_features changes a cell of the input
\* image or of the orientation field handed to it.
C9_InputsReadOnly ==
  [][(call \in {"getFrequencies", "get_features"}) =>
       (image' = image /\ orientations' = orientations)]_vars

\* getFrequencies has returned a field with a valid block, over an image whose
\* blocks differ.
C9_Witness ==
  /\ call = "getFrequencies" /\ pc = "done"
  /\ \E p \in Pixels : frequencies[p] # MinusOne
  /\ \E p \in Pixels : image[p] # image[<<0, 0>>]

\* The block at position k of the row-major double loop.
BlockAt(k) == <<k \div yblocks, k % yblocks>>

RECURSIVE RowMajorOrientations(_)
\* orientations after the first k iterations of the sequential tiling loop.
RowMajorOrientations(k) ==
  IF k = 0 THEN [p \in Pixels |-> Undefined]
  ELSE Tile(RowMajorOrientations(k - 1), BlockAt(k - 1), SmoothedAngle(orien, BlockAt(k - 1)))

RECURSIVE RowMajorFrequencies(_)
\* frequencies after the first k iterations of the sequential smoothing loop.
RowMajorFrequencies(k) ==
  IF k = 0 THEN [p \in Pixels |-> MinusOne]
  ELSE Tile(RowMajorFrequencies(k - 1), BlockAt(k - 1), SmoothedFrequency(F, BlockAt(k - 1)))

\* C10: with the block iterations of the smoothing and tiling loops taken in
\* any order, every iteration reads the padded grid as the estimation pass
\* left it and writes the cells of its own block only (the cells of a handled
\* block hold that block's value, every other cell still holds the initial
\* -1), and the field returned is the field of the sequential row-major loop.
C10_OrderIndependent ==
  /\ (call = "getOrientations" /\ pc \in {"smooth", "tile", "done"}) =>
       \A b \in DOMAIN orientation : orientation[b] = SmoothedAngle(orien, b)
  /\ (call = "getOrientations" /\ pc \in {"tile", "done"}) =>
       \A p \in Pixels :
         orientations[p] =
           IF Covered(p) /\ BlockOf(p) \in done THEN orientation[BlockOf(p)] ELSE Undefined
  /\ (call = "getOrientations" /\ pc = "done") =>
       orientations = RowMajorOrientations(xblocks * yblocks)
  /\ (call = "getFrequencies" /\ pc \in {"smooth", "done"}) =>
       \A p \in Pixels :
         frequencies[p] =
           IF Covered(p) /\ BlockOf(p) \in done THEN TiledAt(BlockOf(p)) ELSE MinusOne
  /\ (call = "getFrequencies" /\ pc = "done") =>
       frequencies = RowMajorFrequencies(xblocks * yblocks)

\* A block has been smoothed and tiled before a block the row-major loop
\* handles earlier, and the two hold different values.
C10_Witness ==
  /\ call = "getFrequencies" /\ pc = "smooth"
  /\ \E b \in done : \E c \in Blocks \ done :
       /\ Index(c) < Index(b)
       /\ TiledAt(b) # SmoothedFrequency(F, c)

====
